---- MODULE Spec2Model ----
(***************************************************************************)
(* A model of the document manager's core: the observable Store and its    *)
(* AppStore specialisation, the DocumentService coordinator, the           *)
(* reconnecting WebSocketService and the ApiService fetch helpers.         *)
(*                                                                         *)
(* The specifications share the variables, each exercising one component: *)
(*   Spec     Store / AppStore                                             *)
(*   SpecSort AppStore sorting                                             *)
(*   SpecCopy Store.getState() and callers that mutate its result          *)
(*   SpecDoc  DocumentService (loads, creation, live messages)             *)
(*   SpecLoad DocumentService (overlapping loads)                          *)
(*   SpecSettle DocumentService (loads with store listeners)               *)
(*   SpecTeardown DocumentService (repeated set-up, destroy)               *)
(*   SpecNested Store with a listener that calls setState                  *)
(*   SpecBanner NotificationBanner                                         *)
(*   SpecWS   WebSocketService (connect, transport events, reconnect)      *)
(*   SpecApi  ApiService (retryFetch, fetchDocuments)                      *)
(***************************************************************************)
EXTENDS Integers, Sequences, FiniteSets, TLC

(***************************************************************************)
(* Bounds of the model.                                                    *)
(***************************************************************************)
\* longest documents list the store-level operations build
MaxDocs == 2
\* transport connections a run creates
MaxSockets == 7
\* calls of WebSocketService.connect() from outside the service
MaxConnectCalls == 2
\* largest maxRetries retryFetch is called with
MaxRetriesArg == 3
\* calls of DocumentService.initialize()
MaxInits == 1
MaxTeardownInits == 3
\* document fetches in flight at once, where loads overlap
MaxPending == 2
\* calls of DocumentService.createDocument()
MaxCreates == 1
\* longest documents list that is sorted
MaxSortLen == 3
MaxShown == 2
MaxBannerTimers == 3

(***************************************************************************)
(* JavaScript values.  null and undefined are distinct values; both are    *)
(* modelled as reserved strings so that they compare with message strings. *)
(***************************************************************************)
Null == "<null>"
Undefined == "<undefined>"

Range(s) == {s[i] : i \in DOMAIN s}

NoDup(s) == \A i, j \in DOMAIN s : i # j => s[i] # s[j]

RECURSIVE Count(_, _)
Count(x, s) == IF s = <<>> THEN 0
               ELSE (IF Head(s) = x THEN 1 ELSE 0) + Count(x, Tail(s))

(***************************************************************************)
(* Documents (types/index.ts, Document).  A contributor is {name, avatar}  *)
(* and every code path of the core sets avatar to '', so a contributor is  *)
(* modelled by its name; an attachment {name, size} by its name.           *)
(***************************************************************************)
DocumentModel(id, name, contributors, version, createdAt, attachments) ==
  [id |-> id, name |-> name, contributors |-> contributors,
   version |-> version, createdAt |-> createdAt, attachments |-> attachments]

\* documents the store-level operations are called with: two share a
\* version and a creation time, two share a name
SampleDocs ==
  { DocumentModel("d1", "Alpha", <<>>, 1, 10, <<>>),
    DocumentModel("d2", "Beta", <<"Ann">>, 1, 10, <<"a.pdf">>) }

SampleLists == { <<>> } \cup { <<d>> : d \in SampleDocs }
                 \cup { <<d, e>> : d, e \in SampleDocs }

(***************************************************************************)
(* AppState (AppStore.ts, initialState).                                   *)
(***************************************************************************)
initialState ==
  [documents |-> <<>>, isLoading |-> FALSE, error |-> Null,
   sortBy |-> "createdAt", sortOrder |-> "desc", viewMode |-> "list"]

StateKeys == <<"documents", "isLoading", "error", "sortBy", "sortOrder", "viewMode">>

VARIABLES
  state,        \* Store.state
  listeners,    \* Store.listeners: a Set, kept in insertion order
  calls,        \* the setState calls of the last operation, in order:
                \* [prev, next, listeners, notified, threw]
  op,           \* the last operation
  wsService,    \* the WebSocketService: its fields, the transport connections
                \* it created, its pending reconnect timers
  rf,           \* a call of ApiService.retryFetch
  fd,           \* a call of ApiService.fetchDocuments
  docService,   \* the DocumentService: its fields, its loads in flight
  returned,     \* the value the last operation returned to its caller
  banner        \* the NotificationBanner: its notifications, the elements of
                \* its container, its pending setTimeout callbacks

storeVars == <<state, listeners, calls>>

apiVars == <<rf, fd>>

vars == <<state, listeners, calls, op, wsService, rf, fd, docService, returned,
         banner>>

(***************************************************************************)
(* JSON.stringify of a state.  The text is modelled by the list of its     *)
(* members, one entry per key in insertion order (which a spread merge     *)
(* keeps), each entry the key and the tokens of its value.  A key whose    *)
(* value is undefined is left out of the text: its entry is empty.  A      *)
(* number stands for its decimal text.  Two texts are equal exactly when   *)
(* these lists are, every entry starting with its key.                     *)
(***************************************************************************)
StringifyDocument(d) ==
  <<"id", d.id, "name", d.name, "contributors", d.contributors,
    "version", d.version, "createdAt", d.createdAt, "attachments", d.attachments>>

StringifyDocuments(ds) == [i \in DOMAIN ds |-> StringifyDocument(ds[i])]

StringifyField(k, v) ==
  IF k = "documents" THEN <<k, StringifyDocuments(v)>>
  ELSE IF k = "isLoading" THEN <<k, IF v THEN "true" ELSE "false">>
  ELSE IF v = Undefined THEN <<>>
  ELSE IF v = Null THEN <<k, "null">>
  ELSE <<k, "\"", v, "\"">>

JSONstringify(st) ==
  [i \in DOMAIN StateKeys |-> StringifyField(StateKeys[i], st[StateKeys[i]])]

(***************************************************************************)
(* Store<T>                                                                *)
(***************************************************************************)
\* { ...this.state, ...partial }
Merge(st, partial) ==
  [k \in DOMAIN st |-> IF k \in DOMAIN partial THEN partial[k] ELSE st[k]]

\* the two snapshots compared as objects: a merge always builds a new one
hasStateChanged_ByReference(prevState, newState) == TRUE

hasStateChanged(prevState, newState) ==
  JSONstringify(prevState) # JSONstringify(newState)

\* a listener that throws when it is invoked
ListenerThrows(l) == l = "bad"

\* listeners.forEach without the try/catch: the exception of a listener
\* ends the loop and leaves notifyListeners
RECURSIVE notifyListeners_NoCatch(_, _)
notifyListeners_NoCatch(ls, currentState) ==
  IF ls = <<>> THEN [deliveries |-> <<>>, threw |-> FALSE]
  ELSE LET delivery == [listener |-> Head(ls), state |-> currentState]
           rest == notifyListeners_NoCatch(Tail(ls), currentState)
       IN IF ListenerThrows(Head(ls))
          THEN [deliveries |-> <<delivery>>, threw |-> TRUE]
          ELSE [deliveries |-> <<delivery>> \o rest.deliveries, threw |-> rest.threw]

\* a forEach that visits the listeners from the last subscribed to the
\* first
RECURSIVE notifyListeners_Reversed(_, _)
notifyListeners_Reversed(ls, currentState) ==
  IF ls = <<>> THEN [deliveries |-> <<>>, threw |-> FALSE]
  ELSE LET delivery == [listener |-> Head(ls), state |-> currentState]
           rest == notifyListeners_Reversed(Tail(ls), currentState)
       IN [deliveries |-> rest.deliveries \o <<delivery>>, threw |-> rest.threw]

\* listeners.forEach with the try/catch around each call: the deliveries
\* made, in order, and whether an exception left the loop (what a listener
\* throws is caught and logged, and the loop goes on)
RECURSIVE notifyListeners(_, _)
notifyListeners(ls, currentState) ==
  IF ls = <<>> THEN [deliveries |-> <<>>, threw |-> FALSE]
  ELSE LET delivery == [listener |-> Head(ls), state |-> currentState]
           rest == notifyListeners(Tail(ls), currentState)
       IN [deliveries |-> <<delivery>> \o rest.deliveries, threw |-> rest.threw]

\* setState on a store value S = [state, calls]
setState(S, partial) ==
  LET previousState == S.state
      newState == Merge(previousState, partial)
      notification == IF hasStateChanged(previousState, newState)
                      THEN notifyListeners(listeners, newState)
                      ELSE [deliveries |-> <<>>, threw |-> FALSE]
  IN [state |-> newState,
      calls |-> Append(S.calls, [prev |-> previousState, next |-> newState,
                                 listeners |-> listeners,
                                 notified |-> notification.deliveries,
                                 threw |-> notification.threw])]

\* the store at the start of an operation
Store0 == [state |-> state, calls |-> <<>>]

Commit(S, name) ==
  /\ state' = S.state
  /\ calls' = S.calls
  /\ op' = name
  /\ UNCHANGED banner
  /\ returned' = Undefined

(***************************************************************************)
(* Store with a listener that calls setState while it is notified.  The    *)
(* nested call runs to its end, its own notifications included, inside the *)
(* listener's invocation; the outer forEach then goes on with the          *)
(* currentState it copied before the loop.  R = [state, deliveries] is the *)
(* store and the deliveries made so far.                                   *)
(***************************************************************************)
\* a listener that calls setState when it is invoked, and what it sets
ListenerSetsState(l) == l = "re"

ListenerPartial == [viewMode |-> "grid"]

RECURSIVE notifyListenersNested(_, _, _)
RECURSIVE setStateNested(_, _)

notifyListenersNested(ls, currentState, R) ==
  IF ls = <<>> THEN R
  ELSE LET delivered == [R EXCEPT !.deliveries =
                           Append(@, [listener |-> Head(ls), state |-> currentState])]
           after == IF ListenerSetsState(Head(ls))
                    THEN setStateNested(delivered, ListenerPartial)
                    ELSE delivered
       IN notifyListenersNested(Tail(ls), currentState, after)

setStateNested(R, partial) ==
  LET previousState == R.state
      newState == Merge(previousState, partial)
      R1 == [R EXCEPT !.state = newState]
  IN IF hasStateChanged(previousState, newState)
     THEN notifyListenersNested(listeners, newState, R1)
     ELSE R1

\* partial states the outer setState is called with
NestedPartials ==
  { [viewMode |-> "list"], [isLoading |-> TRUE], [isLoading |-> FALSE],
    [error |-> "E1"], [error |-> Null] }

(***************************************************************************)
(* Store operations as steps.                                              *)
(***************************************************************************)
\* setState(partial) on a store whose listeners may call setState; the
\* call is recorded with every delivery made while it ran
Store_setStateNested(partial) ==
  /\ LET R == setStateNested([state |-> state, deliveries |-> <<>>], partial)
     IN /\ state' = R.state
        /\ calls' = <<[prev |-> state, next |-> R.state, listeners |-> listeners,
                       notified |-> R.deliveries, threw |-> FALSE]>>
  /\ op' = "setState"
  /\ UNCHANGED banner
  /\ returned' = Undefined
  /\ UNCHANGED <<listeners, wsService, apiVars, docService>>

ListenerIds == {"l1", "bad"}

ErrorMessages == {"E1"}

\* partial states setState is called with directly (the AppStore setters
\* below cover the single-field merges)
Partials ==
  { [error |-> Undefined],
    [isLoading |-> TRUE, error |-> Null],
    [documents |-> <<>>],
    [isLoading |-> FALSE, viewMode |-> "list"] }

\* subscribe(listener): Set.add keeps a listener that is already there
subscribe(ls, l) == IF l \in Range(ls) THEN ls ELSE Append(ls, l)

\* a de-registration function that leaves the Set as it is
unsubscribe_Noop(ls, l) == ls

\* the function subscribe returns: Set.delete
unsubscribe(ls, l) == SelectSeq(ls, LAMBDA x : x # l)

\* getState(): a shallow copy of the state
getState(S) == S.state

\* what a caller does to the object getState() returned
Mutations ==
  { [kind |-> "assign", key |-> "isLoading", value |-> TRUE],
    [kind |-> "assign", key |-> "documents", value |-> <<>>],
    [kind |-> "pop"] }
  \cup { [kind |-> "push", document |-> d] : d \in SampleDocs }

\* the state of the store after mutation m of the object getState()
\* returned.  { ...this.state } is a new object whose fields hold the same
\* values: assigning a field changes the copy alone, while the documents
\* array of the copy is the array of the store, so push and pop act on
\* the store's list.
mutateReturned(st, m) ==
  IF m.kind = "assign" THEN st
  ELSE IF m.kind = "push" THEN [st EXCEPT !.documents = Append(@, m.document)]
  ELSE [st EXCEPT !.documents = SubSeq(@, 1, Len(@) - 1)]

\* a caller takes getState(), mutates what it got and takes getState()
\* again: returned holds the contents of the two
Caller_mutatesReturned(m) ==
  /\ m.kind = "push" => Len(state.documents) < MaxDocs
  /\ m.kind = "pop" => state.documents # <<>>
  /\ state' = mutateReturned(state, m)
  /\ calls' = <<>>
  /\ op' = "mutateReturned"
  /\ UNCHANGED banner
  /\ returned' = [first |-> getState(Store0),
                  second |-> getState([state |-> state', calls |-> <<>>])]
  /\ UNCHANGED <<listeners, wsService, apiVars, docService>>

Store_subscribe(l) ==
  /\ listeners' = subscribe(listeners, l)
  /\ calls' = <<>>
  /\ op' = "subscribe"
  /\ UNCHANGED banner
  /\ returned' = Undefined
  /\ UNCHANGED <<state, wsService, apiVars, docService>>

Store_unsubscribe(l) ==
  /\ listeners' = unsubscribe(listeners, l)
  /\ calls' = <<>>
  /\ op' = "unsubscribe"
  /\ UNCHANGED banner
  /\ returned' = (l \in Range(listeners))
  /\ UNCHANGED <<state, wsService, apiVars, docService>>

Store_setState(partial) ==
  /\ Commit(setState(Store0, partial), "setState")
  /\ UNCHANGED <<listeners, wsService, apiVars, docService>>

(***************************************************************************)
(* AppStore                                                                *)
(***************************************************************************)
setDocuments(S, documents) == setState(S, [documents |-> documents, error |-> Null])

\* an addDocument that puts the document at the end
addDocument_Append(S, document) ==
  setState(S, [documents |-> Append(getState(S).documents, document)])

addDocument(S, document) ==
  LET currentState == getState(S)
      updatedDocuments == <<document>> \o currentState.documents
  IN setState(S, [documents |-> updatedDocuments])

setLoading(S, isLoading) == setState(S, [isLoading |-> isLoading])

\* a setError that merges the error alone
setError_KeepsLoading(S, error) == setState(S, [error |-> error])

setError(S, error) == setState(S, [error |-> error, isLoading |-> FALSE])

setSortBy(S, sortBy) == setState(S, [sortBy |-> sortBy])

setSortOrder(S, sortOrder) == setState(S, [sortOrder |-> sortOrder])

setViewMode(S, viewMode) == setState(S, [viewMode |-> viewMode])

\* a toggle that only ever switches to the grid
toggleViewMode_AlwaysGrid(S) == setState(S, [viewMode |-> "grid"])

toggleViewMode(S) ==
  LET currentState == getState(S)
      newViewMode == IF currentState.viewMode = "list" THEN "grid" ELSE "list"
  IN setState(S, [viewMode |-> newViewMode])

clearError(S) == setState(S, [error |-> Null])

(***************************************************************************)
(* getSortedDocuments().  A createdAt is modelled by the instant its ISO   *)
(* text denotes, in seconds; a name by itself, names being compared        *)
(* through the collation order of the names in use.                        *)
(***************************************************************************)
\* the names of the sorted documents, in the order localeCompare puts them
Collation == <<"Alpha", "Beta", "Gamma">>

CollationIndex(name) == CHOOSE i \in DOMAIN Collation : Collation[i] = name

\* a.localeCompare(b): negative, zero or positive
localeCompare(a, b) ==
  IF a = b THEN 0
  ELSE IF CollationIndex(a) < CollationIndex(b) THEN -1 ELSE 1

\* new Date(createdAt).getTime(): milliseconds
getTime(createdAt) == createdAt * 1000

\* a comparator that leaves sortOrder out
compare_IgnoresOrder(a, b, sortBy, sortOrder) ==
  IF sortBy = "name" THEN localeCompare(a.name, b.name)
  ELSE IF sortBy = "version" THEN a.version - b.version
  ELSE IF sortBy = "createdAt" THEN getTime(a.createdAt) - getTime(b.createdAt)
  ELSE 0

\* the comparator getSortedDocuments passes to sort
compare(a, b, sortBy, sortOrder) ==
  LET comparison ==
        IF sortBy = "name" THEN localeCompare(a.name, b.name)
        ELSE IF sortBy = "version" THEN a.version - b.version
        ELSE IF sortBy = "createdAt" THEN getTime(a.createdAt) - getTime(b.createdAt)
        ELSE 0
  IN IF sortOrder = "desc" THEN -comparison ELSE comparison

\* Array.prototype.sort with that comparator.  The sort is stable: an
\* element goes after every element before it that does not compare
\* greater.
RECURSIVE insert(_, _, _, _)
insert(x, sorted, sortBy, sortOrder) ==
  IF sorted = <<>> THEN <<x>>
  ELSE IF compare(Head(sorted), x, sortBy, sortOrder) <= 0
       THEN <<Head(sorted)>> \o insert(x, Tail(sorted), sortBy, sortOrder)
       ELSE <<x>> \o sorted

RECURSIVE sort(_, _, _)
sort(array, sortBy, sortOrder) ==
  IF array = <<>> THEN <<>>
  ELSE insert(array[Len(array)],
              sort(SubSeq(array, 1, Len(array) - 1), sortBy, sortOrder),
              sortBy, sortOrder)

Reverse(array) == [i \in DOMAIN array |-> array[Len(array) + 1 - i]]

\* a getSortedDocuments that sorts ascending and reverses for desc
getSortedDocuments_ReverseForDesc(S) ==
  LET st == getState(S)
      ascending == sort(st.documents, st.sortBy, "asc")
  IN [S |-> S,
      returned |-> IF st.sortOrder = "desc" THEN Reverse(ascending) ELSE ascending]

\* a getSortedDocuments that sorts the array of the state itself: sort()
\* works in place, and a shallow copy of the state shares the array
getSortedDocuments_InPlace(S) ==
  LET st == getState(S)
      sorted == sort(st.documents, st.sortBy, st.sortOrder)
  IN [S |-> [S EXCEPT !.state.documents = sorted], returned |-> sorted]

\* getSortedDocuments(): sort() works on the copy [...documents], so the
\* array of the state is not its receiver; [S, returned]
getSortedDocuments(S) ==
  LET st == getState(S)
      copy == st.documents
  IN [S |-> S, returned |-> sort(copy, st.sortBy, st.sortOrder)]

AppStore_getSortedDocuments ==
  /\ LET R == getSortedDocuments(Store0)
     IN /\ state' = R.S.state
        /\ calls' = R.S.calls
        /\ UNCHANGED banner
        /\ returned' = R.returned
  /\ op' = "getSortedDocuments"
  /\ UNCHANGED <<listeners, wsService, apiVars, docService>>

AppStore_setDocuments(documents) ==
  /\ Commit(setDocuments(Store0, documents), "setDocuments")
  /\ UNCHANGED <<listeners, wsService, apiVars, docService>>

AppStore_addDocument(document) ==
  /\ Len(state.documents) < MaxDocs
  /\ Commit(addDocument(Store0, document), "addDocument")
  /\ UNCHANGED <<listeners, wsService, apiVars, docService>>

AppStore_setLoading(isLoading) ==
  /\ Commit(setLoading(Store0, isLoading), "setLoading")
  /\ UNCHANGED <<listeners, wsService, apiVars, docService>>

AppStore_setError(error) ==
  /\ Commit(setError(Store0, error), "setError")
  /\ UNCHANGED <<listeners, wsService, apiVars, docService>>

AppStore_clearError ==
  /\ Commit(clearError(Store0), "clearError")
  /\ UNCHANGED <<listeners, wsService, apiVars, docService>>

AppStore_setSortBy(sortBy) ==
  /\ Commit(setSortBy(Store0, sortBy), "setSortBy")
  /\ UNCHANGED <<listeners, wsService, apiVars, docService>>

AppStore_setSortOrder(sortOrder) ==
  /\ Commit(setSortOrder(Store0, sortOrder), "setSortOrder")
  /\ UNCHANGED <<listeners, wsService, apiVars, docService>>

AppStore_setViewMode(viewMode) ==
  /\ Commit(setViewMode(Store0, viewMode), "setViewMode")
  /\ UNCHANGED <<listeners, wsService, apiVars, docService>>

AppStore_toggleViewMode ==
  /\ Commit(toggleViewMode(Store0), "toggleViewMode")
  /\ UNCHANGED <<listeners, wsService, apiVars, docService>>

(***************************************************************************)
(* WebSocketService.  A transport connection (a WebSocket object) is       *)
(* "connecting", "open", "failing" (its error event has fired, its close   *)
(* event is due), "closing" (close() was called on it, its close event is  *)
(* due) or "closed".  connect() never closes the connection it replaces,   *)
(* and the handlers of a replaced connection stay attached to it.          *)
(***************************************************************************)
maxReconnectAttempts == 5
reconnectDelay == 1000
NormalClosure == 1000
AbnormalClosure == 1006
GoingAway == 1001

RECURSIVE Pow(_, _)
Pow(b, e) == IF e = 0 THEN 1 ELSE b * Pow(b, e - 1)

initialWsService ==
  [ws |-> 0,                   \* this.ws: 0 is null, else an index of sockets
   reconnectAttempts |-> 0,
   isDestroyed |-> FALSE,
   documentHandlers |-> {},
   sockets |-> <<>>,           \* every WebSocket created, in creation order
   timers |-> <<>>,            \* delays of the pending setTimeout callbacks
   statusLog |-> <<>>,         \* notifyStatusChange calls of the last operation
   received |-> [kind |-> "none"],  \* event.data of the last message event
   delays |-> <<>>,            \* delays scheduled since the last successful open
   connectCalls |-> 0]         \* outside calls of connect() so far

Live(W) == {s \in DOMAIN W.sockets : W.sockets[s] \in {"connecting", "open"}}

notifyStatusChange(W, status) == [W EXCEPT !.statusLog = Append(@, status)]

canScheduleReconnect_OffByOne(W) ==
  ~(W.isDestroyed \/ W.reconnectAttempts > maxReconnectAttempts)

canScheduleReconnect(W) ==
  ~(W.isDestroyed \/ W.reconnectAttempts >= maxReconnectAttempts)

backoffDelay_Linear(attempts) == reconnectDelay * attempts

backoffDelay(attempts) == reconnectDelay * Pow(2, attempts - 1)

scheduleReconnect(W) ==
  IF ~canScheduleReconnect(W) THEN W
  ELSE LET attempts == W.reconnectAttempts + 1
           delay == backoffDelay(attempts)
       IN [W EXCEPT !.reconnectAttempts = attempts,
                    !.timers = Append(@, delay),
                    !.delays = Append(@, delay)]

connectGuard_Missing(W) == FALSE

\* if (this.isDestroyed) return;
connectGuard(W) == W.isDestroyed

\* connect(); throws: the WebSocket constructor raises
connect(W, throws) ==
  IF connectGuard(W) THEN W
  ELSE LET W1 == notifyStatusChange(W, "connecting")
       IN IF throws
          THEN scheduleReconnect(notifyStatusChange(W1, "error"))
          ELSE [W1 EXCEPT !.sockets = Append(@, "connecting"),
                          !.ws = Len(W1.sockets) + 1]

\* an onopen that leaves the reconnect-attempt counter as it is
onopen_KeepsAttempts(W, s) ==
  notifyStatusChange([W EXCEPT !.sockets[s] = "open", !.delays = <<>>], "connected")

onopen(W, s) ==
  notifyStatusChange([W EXCEPT !.sockets[s] = "open",
                               !.reconnectAttempts = 0,
                               !.delays = <<>>],
                     "connected")

\* an onclose that does not look at the close code
onclose_AnyCode(W, s, code) ==
  LET W1 == notifyStatusChange([W EXCEPT !.sockets[s] = "closed"], "disconnected")
  IN IF ~W1.isDestroyed THEN scheduleReconnect(W1) ELSE W1

onclose(W, s, code) ==
  LET W1 == notifyStatusChange([W EXCEPT !.sockets[s] = "closed"], "disconnected")
  IN IF ~W1.isDestroyed /\ code # NormalClosure THEN scheduleReconnect(W1) ELSE W1

\* an onerror that notifies nothing
onerror_Silent(W, s) == [W EXCEPT !.sockets[s] = "failing"]

onerror(W, s) ==
  notifyStatusChange([W EXCEPT !.sockets[s] = "failing"], "error")

\* ws.close(1000, ...): starts the closing handshake of a connection that
\* is connecting or open, and does nothing to any other
close(W, s) ==
  IF W.sockets[s] \in {"connecting", "open"}
  THEN [W EXCEPT !.sockets[s] = "closing"]
  ELSE W

disconnect(W) ==
  LET W1 == [W EXCEPT !.isDestroyed = TRUE]
      W2 == IF W1.ws # 0 THEN [close(W1, W1.ws) EXCEPT !.ws = 0] ELSE W1
  IN [W2 EXCEPT !.documentHandlers = {}]

\* the setTimeout callback of scheduleReconnect
reconnectTimer(W, throws) == IF ~W.isDestroyed THEN connect(W, throws) ELSE W

\* the service at the start of an operation
Ws0 == [wsService EXCEPT !.statusLog = <<>>, !.received = [kind |-> "none"]]

\* close codes the close event of connection s can carry: a connection
\* that never opened closes abnormally
CloseCodes(W, s) ==
  IF W.sockets[s] = "open" THEN {NormalClosure, GoingAway, AbnormalClosure}
  ELSE IF W.sockets[s] = "closing" THEN {NormalClosure, AbnormalClosure}
  ELSE {AbnormalClosure}

WS_connect(throws) ==
  /\ wsService.connectCalls < MaxConnectCalls
  /\ Len(wsService.sockets) < MaxSockets
  /\ wsService' = connect([Ws0 EXCEPT !.connectCalls = @ + 1], throws)
  /\ op' = "connect"
  /\ UNCHANGED banner
  /\ returned' = Undefined
  /\ UNCHANGED <<storeVars, apiVars, docService>>

WS_disconnect ==
  /\ ~wsService.isDestroyed
  /\ wsService' = disconnect(Ws0)
  /\ op' = "disconnect"
  /\ UNCHANGED banner
  /\ returned' = Undefined
  /\ UNCHANGED <<storeVars, apiVars, docService>>

TransportOpens(s) ==
  /\ wsService.sockets[s] = "connecting"
  /\ wsService' = onopen(Ws0, s)
  /\ op' = "open"
  /\ UNCHANGED banner
  /\ returned' = Undefined
  /\ UNCHANGED <<storeVars, apiVars, docService>>

TransportErrors(s) ==
  /\ wsService.sockets[s] \in {"connecting", "open"}
  /\ wsService' = onerror(Ws0, s)
  /\ op' = "error"
  /\ UNCHANGED banner
  /\ returned' = Undefined
  /\ UNCHANGED <<storeVars, apiVars, docService>>

TransportCloses(s, code) ==
  /\ wsService.sockets[s] # "closed"
  /\ code \in CloseCodes(wsService, s)
  /\ wsService' = onclose(Ws0, s, code)
  /\ op' = "close"
  /\ UNCHANGED banner
  /\ returned' = Undefined
  /\ UNCHANGED <<storeVars, apiVars, docService>>

ReconnectTimerFires(i, throws) ==
  /\ i \in DOMAIN wsService.timers
  /\ Len(wsService.sockets) < MaxSockets
  /\ LET W == [Ws0 EXCEPT !.timers = SubSeq(@, 1, i - 1) \o SubSeq(@, i + 1, Len(@))]
     IN wsService' = reconnectTimer(W, throws)
  /\ op' = "timer"
  /\ UNCHANGED banner
  /\ returned' = Undefined
  /\ UNCHANGED <<storeVars, apiVars, docService>>

(***************************************************************************)
(* ApiService.  A settled fetch is a response with a status, or a          *)
(* rejection (a network failure).                                          *)
(***************************************************************************)
DefaultMaxRetries == 3
DefaultDelay == 1000

Response(status) == [kind |-> "response", status |-> status]
Rejection == [kind |-> "reject", status |-> 0]

FetchOutcomes == {Response(200), Response(404), Response(500), Response(503), Rejection}

\* Response.ok
ok(response) == response.status >= 200 /\ response.status <= 299

HttpError(status) == [error |-> "HTTP", status |-> status]
NetworkError == [error |-> "network", status |-> 0]

initialRf ==
  [pc |-> "idle", maxRetries |-> 0, delay |-> 0, attempt |-> 0,
   outcomes |-> <<>>,       \* what each fetch of this call settled with
   waits |-> <<>>,          \* the delays waited, in order
   lastError |-> Undefined, result |-> Undefined]

\* for (...; attempt <= maxRetries; ...)
loopCondition_OffByOne(attempt, maxRetries) == attempt < maxRetries

loopCondition(attempt, maxRetries) == attempt <= maxRetries

\* delay * attempt
retryDelay_Constant(delay, attempt) == delay

retryDelay(delay, attempt) == delay * attempt

\* the head of the for loop: the next fetch, or the throw after the loop
loopHead(r) ==
  IF loopCondition(r.attempt, r.maxRetries)
  THEN [r EXCEPT !.pc = "fetch"]
  ELSE [r EXCEPT !.pc = "thrown", !.result = r.lastError]

\* await this.delay(delay * attempt); continue
delayAndContinue(r) ==
  [r EXCEPT !.pc = "delay", !.waits = Append(@, retryDelay(r.delay, r.attempt))]

\* the catch block, entered with the value thrown in the try block
catchBlock(r, thrown) ==
  LET r1 == [r EXCEPT !.lastError = thrown]
  IN IF r1.attempt < r1.maxRetries
     THEN delayAndContinue(r1)
     ELSE [r1 EXCEPT !.pc = "thrown", !.result = r1.lastError]

\* the try block from the point where the fetch settles
tryBlock(r, outcome) ==
  IF outcome.kind = "reject" THEN catchBlock(r, NetworkError)
  ELSE IF ok(outcome) THEN [r EXCEPT !.pc = "returned", !.result = outcome]
  ELSE IF outcome.status >= 500 /\ r.attempt < r.maxRetries THEN delayAndContinue(r)
  ELSE catchBlock(r, HttpError(outcome.status))

ApiService_retryFetch(maxRetries, delay) ==
  /\ rf.pc = "idle"
  /\ rf' = loopHead([initialRf EXCEPT !.maxRetries = maxRetries, !.delay = delay,
                                      !.attempt = 1])
  /\ op' = "retryFetch"
  /\ UNCHANGED banner
  /\ returned' = Undefined
  /\ UNCHANGED <<storeVars, wsService, fd, docService>>

RetryFetchSettles(outcome) ==
  /\ rf.pc = "fetch"
  /\ rf' = tryBlock([rf EXCEPT !.outcomes = Append(@, outcome)], outcome)
  /\ op' = "fetchSettles"
  /\ UNCHANGED banner
  /\ returned' = Undefined
  /\ UNCHANGED <<storeVars, wsService, fd, docService>>

RetryDelayElapses ==
  /\ rf.pc = "delay"
  /\ rf' = loopHead([rf EXCEPT !.attempt = @ + 1])
  /\ op' = "delayElapses"
  /\ UNCHANGED banner
  /\ returned' = Undefined
  /\ UNCHANGED <<storeVars, wsService, fd, docService>>

\* fetchDocuments: the bodies response.json() can meet
GenericFetchError == "Failed to fetch documents. Please check if the server is running."

Bodies ==
  { [kind |-> "array", data |-> ds] : ds \in SampleLists }
  \cup { [kind |-> "object", data |-> <<>>],      \* valid JSON, not an array
         [kind |-> "invalid", data |-> <<>>] }    \* response.json() rejects

initialFd ==
  [pc |-> "idle", response |-> Rejection, body |-> [kind |-> "none", data |-> <<>>],
   result |-> <<>>, error |-> Null]

fetchDocumentsThrows(f) ==
  [f EXCEPT !.pc = "thrown", !.error = GenericFetchError]

\* if (!response.ok) throw ...
notOk_Unchecked(response) == FALSE

notOk(response) == ~ok(response)

\* Array.isArray(data) ? data : []
arrayOrEmpty(body) == IF body.kind = "array" THEN body.data ELSE <<>>

ApiService_fetchDocuments ==
  /\ fd.pc \in {"idle", "returned", "thrown"}
  /\ fd' = [initialFd EXCEPT !.pc = "fetch"]
  /\ op' = "fetchDocuments"
  /\ UNCHANGED banner
  /\ returned' = Undefined
  /\ UNCHANGED <<storeVars, wsService, rf, docService>>

FetchDocumentsSettles(outcome) ==
  /\ fd.pc = "fetch"
  /\ LET f == [fd EXCEPT !.response = outcome]
     IN fd' = IF outcome.kind = "reject" \/ notOk(outcome)
              THEN fetchDocumentsThrows(f)
              ELSE [f EXCEPT !.pc = "json"]
  /\ op' = "fetchSettles"
  /\ UNCHANGED banner
  /\ returned' = Undefined
  /\ UNCHANGED <<storeVars, wsService, rf, docService>>

FetchDocumentsBody(body) ==
  /\ fd.pc = "json"
  /\ LET f == [fd EXCEPT !.body = body]
     IN fd' = IF body.kind = "invalid"
              THEN fetchDocumentsThrows(f)
              ELSE [f EXCEPT !.pc = "returned", !.result = arrayOrEmpty(body)]
  /\ op' = "json"
  /\ UNCHANGED banner
  /\ returned' = Undefined
  /\ UNCHANGED <<storeVars, wsService, rf, docService>>

NextApi ==
  \/ \E maxRetries \in 0..MaxRetriesArg, delay \in {1, DefaultDelay} :
       ApiService_retryFetch(maxRetries, delay)
  \/ \E outcome \in FetchOutcomes : RetryFetchSettles(outcome)
  \/ RetryDelayElapses
  \/ ApiService_fetchDocuments
  \/ \E outcome \in FetchOutcomes : FetchDocumentsSettles(outcome)
  \/ \E body \in Bodies : FetchDocumentsBody(body)

(***************************************************************************)
(* DocumentService.  Every setupWebSocketListeners() call registers a new  *)
(* closure with the WebSocketService; handlers are numbered in the order   *)
(* they are created, which is the order a Set iterates them in.            *)
(***************************************************************************)
RandomContributors == 3
RandomAttachments == 4
NotificationDuration == 5000

\* the Math.random() draws of a live message: Math.floor(Math.random() * 3)
\* extra contributors and Math.floor(Math.random() * 4) + 1 attachments.
\* The draws only fill the new document's lists; the runs take the
\* largest of each.
RandomDraws ==
  { [extra |-> RandomContributors - 1, files |-> RandomAttachments] }

\* what crypto.randomUUID() returns on its successive calls
Uuids == <<"uuid-1", "uuid-2", "uuid-3">>

\* what new Date() reads when a document is created
ClockTimes == {20}

\* lists the server answers GET /documents with
ServerDocs ==
  << DocumentModel("srv1", "Report", <<"Ann">>, 2, 5, <<"r.pdf">>),
     DocumentModel("srv2", "Notes", <<>>, 1, 7, <<>>) >>

FetchedLists == { <<ServerDocs[1]>>, <<ServerDocs[2], ServerDocs[1]>> }

\* what a fetchDocuments() call of a load settles with
LoadOutcomes ==
  { [ok |-> TRUE, documents |-> ds, message |-> Null] : ds \in FetchedLists }
  \cup { [ok |-> FALSE, documents |-> <<>>, message |-> GenericFetchError] }

\* the payloads of the message events: JSON of a WebSocketMessage, or text
\* that JSON.parse rejects
WebSocketMessage(id, title, user, timestamp) ==
  [kind |-> "json", DocumentID |-> id, DocumentTitle |-> title,
   UserName |-> user, Timestamp |-> timestamp]

Payloads ==
  { WebSocketMessage(id, "Live", "Remote", 30) : id \in {"srv1", "live1"} }
  \cup { [kind |-> "garbage"] }

initialDocService ==
  [wsUnsubscribe |-> 0,          \* 0 is null, else the handler it removes
   notificationCallbacks |-> <<>>,
   handlersCreated |-> 0,
   pending |-> <<>>,             \* loads awaiting fetchDocuments():
                                 \* [byInit, before, overtaken], before the
                                 \* documents of the store when the load
                                 \* was called
   notifications |-> <<>>,       \* notifications delivered by the last operation
   uuids |-> 0,                  \* randomUUID() calls so far
   inits |-> 0,                  \* initialize() calls so far
   lastCall |-> [kind |-> "none"]]  \* the call the last operation made or
                                    \* completed: its arguments and its result

\* the services at the start of an operation
Doc0 == [docService EXCEPT !.notifications = <<>>, !.lastCall = [kind |-> "none"]]

Ids(documents) == {documents[i].id : i \in DOMAIN documents}

RECURSIVE SetToSeq(_)
SetToSeq(ns) ==
  IF ns = {} THEN <<>>
  ELSE LET m == CHOOSE x \in ns : \A y \in ns : x <= y
       IN <<m>> \o SetToSeq(ns \ {m})

\* DocumentModel.createNew(name, contributors): it takes no attachments
createNew(name, contributors, uuid, now) ==
  DocumentModel(uuid, name, contributors, 1, now, <<>>)

\* notifyCallbacks: every callback is called, in order
notifyCallbacks(D, notification) ==
  [D EXCEPT !.notifications =
     @ \o [i \in DOMAIN D.notificationCallbacks |->
             [callback |-> D.notificationCallbacks[i], notification |-> notification]]]

\* existingDocuments.some(d => d.id === message.DocumentID)
exists_Never(documents, id) == FALSE

exists_Always(documents, id) == TRUE

exists(documents, id) == \E i \in DOMAIN documents : documents[i].id = id

\* the message handler of setupWebSocketListeners, on X = [S, D]; extra and
\* files are the two Math.random() draws
onLiveMessage(X, message, extra, files) ==
  LET contributors == <<message.UserName>> \o [i \in 1..extra |-> "Alex Smith"]
      attachments == [i \in 1..files |-> "Report_final.pdf"]
      newDocument == DocumentModel(message.DocumentID, message.DocumentTitle,
                                   contributors, 1, message.Timestamp, attachments)
      existingDocuments == getState(X.S).documents
  IN IF ~exists(existingDocuments, message.DocumentID)
     THEN [S |-> addDocument(X.S, newDocument),
           D |-> notifyCallbacks(X.D,
                   [message |-> <<"New document", message.DocumentTitle,
                                  "created by", message.UserName>>,
                    type |-> "info", duration |-> NotificationDuration])]
     ELSE X

\* notifyDocumentHandlers: each registered handler in turn
RECURSIVE notifyDocumentHandlers(_, _, _, _, _)
notifyDocumentHandlers(hs, X, message, extra, files) ==
  IF hs = <<>> THEN X
  ELSE notifyDocumentHandlers(Tail(hs), onLiveMessage(X, message, extra, files),
                              message, extra, files)

\* an onmessage whose parse failure is written to the store as an error
onmessage_ReportsError(W, X, data, extra, files) ==
  IF data.kind = "json"
  THEN notifyDocumentHandlers(SetToSeq(W.documentHandlers), X, data, extra, files)
  ELSE [S |-> setError(X.S, "E1"), D |-> X.D]

\* ws.onmessage: JSON.parse, then the handlers; a parse failure is logged
onmessage(W, X, data, extra, files) ==
  IF data.kind = "json"
  THEN notifyDocumentHandlers(SetToSeq(W.documentHandlers), X, data, extra, files)
  ELSE X

\* loadDocuments() up to its await
loadDocumentsBegin(S) == clearError(setLoading(S, TRUE))

\* loadDocuments() without its finally block
loadDocumentsEnd_NoFinally(S, outcome) ==
  IF outcome.ok THEN setDocuments(S, outcome.documents)
  ELSE setError(S, outcome.message)

\* loadDocuments() from the point where fetchDocuments() settles
loadDocumentsEnd(S, outcome) ==
  LET S1 == IF outcome.ok THEN setDocuments(S, outcome.documents)
            ELSE setError(S, outcome.message)
  IN setLoading(S1, FALSE)

\* how the promise of loadDocuments() settles, E the store after
\* loadDocumentsEnd: the catch block takes the failure of the fetch, so
\* only an exception that leaves a store call of the catch or the finally
\* block rejects it
Escapes(E, outcome) ==
  \E i \in DOMAIN E.calls : (i > 1 \/ ~outcome.ok) /\ E.calls[i].threw

\* a loadDocuments() whose catch block throws the failure again
loadDocumentsSettlement_Rethrows(E, outcome) ==
  IF ~outcome.ok \/ Escapes(E, outcome) THEN "rejected" ELSE "fulfilled"

loadDocumentsSettlement(E, outcome) ==
  IF Escapes(E, outcome) THEN "rejected" ELSE "fulfilled"

\* how the promise of initialize() settles: its own catch block takes
\* whatever loadDocuments() rejects with and reports it with setError
initializeSettlement(loadSettlement) == "fulfilled"

\* setupWebSocketListeners(): a new handler, remembered in wsUnsubscribe
setupWebSocketListeners(W, D) ==
  LET h == D.handlersCreated + 1
  IN [W |-> [W EXCEPT !.documentHandlers = @ \cup {h}],
      D |-> [D EXCEPT !.handlersCreated = h, !.wsUnsubscribe = h]]

\* initialize() with the subscription and the connection made before the
\* load is awaited
initializeBegin_ConnectFirst(X) ==
  LET R == setupWebSocketListeners(X.W, X.D)
  IN [S |-> loadDocumentsBegin(X.S), W |-> connect(R.W, FALSE), D |-> R.D]

\* initialize() up to its await, on X = [S, W, D]: the start of the load
initializeBegin(X) == [S |-> loadDocumentsBegin(X.S), W |-> X.W, D |-> X.D]

\* initialize() from the point where its loadDocuments() has finished
initializeEnd(W, D) ==
  LET R == setupWebSocketListeners(W, D)
  IN [W |-> connect(R.W, FALSE), D |-> R.D]

DS_initialize ==
  /\ LET X == initializeBegin([S |-> Store0, W |-> Ws0, D |-> Doc0])
     IN /\ Commit(X.S, "initialize")
        /\ wsService' = X.W
        /\ docService' = [X.D EXCEPT !.inits = @ + 1,
                                     !.pending = Append(@, [byInit |-> TRUE,
                                                            before |-> state.documents,
                                                            overtaken |-> FALSE])]
  /\ UNCHANGED <<listeners, apiVars>>

DS_loadDocuments ==
  /\ Commit(loadDocumentsBegin(Store0), "loadDocuments")
  /\ docService' = [Doc0 EXCEPT !.pending = Append(@, [byInit |-> FALSE,
                                                       before |-> state.documents,
                                                       overtaken |-> FALSE])]
  /\ UNCHANGED <<listeners, wsService, apiVars>>

\* the fetch of the i-th load in flight settles; initialize() goes on to
\* setupWebSocketListeners() and connect()
\* the loads still in flight once the i-th has settled, in the order
\* they were started: a load started before one that has succeeded is
\* overtaken
StillPending(pending, i, outcome) ==
  [j \in 1..(i - 1) |->
     [pending[j] EXCEPT !.overtaken = @ \/ outcome.ok]]
  \o SubSeq(pending, i + 1, Len(pending))

\* how the promise of the call that started the i-th load settles
Settlement(i, outcome) ==
  LET loadSettlement ==
        loadDocumentsSettlement(loadDocumentsEnd(Store0, outcome), outcome)
  IN IF docService.pending[i].byInit THEN initializeSettlement(loadSettlement)
     ELSE loadSettlement

LoadSettles(i, outcome) ==
  /\ i \in DOMAIN docService.pending
  /\ Commit(loadDocumentsEnd(Store0, outcome), "loadSettles")
  /\ LET D == [Doc0 EXCEPT !.pending = StillPending(@, i, outcome),
                           !.lastCall = [kind |-> "load",
                                         byInit |-> docService.pending[i].byInit,
                                         before |-> docService.pending[i].before,
                                         outcome |-> outcome,
                                         settled |-> Settlement(i, outcome)]]
         R == initializeEnd(Ws0, D)
     IN IF docService.pending[i].byInit
        THEN /\ docService' = R.D
             /\ wsService' = R.W
        ELSE /\ docService' = D
             /\ UNCHANGED wsService
  /\ UNCHANGED <<listeners, apiVars>>

DS_createDocument(name, contributors, attachments, now) ==
  /\ docService.uuids < MaxCreates
  /\ LET newDocument == createNew(name, contributors, Uuids[docService.uuids + 1], now)
     IN /\ Commit(addDocument(Store0, newDocument), "createDocument")
        /\ docService' = [Doc0 EXCEPT !.uuids = @ + 1,
                                      !.lastCall = [kind |-> "createDocument",
                                                    name |-> name,
                                                    contributors |-> contributors,
                                                    attachments |-> attachments,
                                                    returned |-> newDocument]]
  /\ UNCHANGED <<listeners, wsService, apiVars>>

DS_onNotification(callback) ==
  /\ docService' = [Doc0 EXCEPT !.notificationCallbacks = subscribe(@, callback)]
  /\ calls' = <<>>
  /\ op' = "onNotification"
  /\ UNCHANGED banner
  /\ returned' = Undefined
  /\ UNCHANGED <<state, listeners, wsService, apiVars>>

DS_destroy ==
  /\ LET h == docService.wsUnsubscribe
         W == IF h # 0 THEN [Ws0 EXCEPT !.documentHandlers = @ \ {h}] ELSE Ws0
     IN /\ wsService' = disconnect(W)
        /\ docService' = [Doc0 EXCEPT !.wsUnsubscribe = 0]
  /\ calls' = <<>>
  /\ op' = "destroy"
  /\ UNCHANGED banner
  /\ returned' = Undefined
  /\ UNCHANGED <<state, listeners, apiVars>>

TransportMessage(s, data, extra, files) ==
  /\ wsService.sockets[s] = "open"
  /\ LET X == onmessage(wsService, [S |-> Store0, D |-> Doc0], data, extra, files)
     IN /\ Commit(X.S, "message")
        /\ docService' = X.D
  /\ wsService' = [Ws0 EXCEPT !.received = data]
  /\ UNCHANGED <<listeners, apiVars>>

\* the service driven with one load at a time: a load is called when no
\* fetch is in flight
NextDoc ==
  \/ docService.inits < MaxInits /\ docService.pending = <<>> /\ DS_initialize
  \/ docService.pending = <<>> /\ DS_loadDocuments
  \/ \E i \in DOMAIN docService.pending, outcome \in LoadOutcomes :
       LoadSettles(i, outcome)
  \/ \E attachments \in {<<>>, <<"file.pdf">>}, now \in ClockTimes :
       DS_createDocument("New", <<"Jane">>, attachments, now)
  \/ \E callback \in {"banner"} : DS_onNotification(callback)
  \/ DS_destroy
  \/ \E s \in DOMAIN wsService.sockets : TransportOpens(s)
  \/ \E s \in DOMAIN wsService.sockets, data \in Payloads, draw \in RandomDraws :
       TransportMessage(s, data, draw.extra, draw.files)

(***************************************************************************)
(* NotificationBanner.  A notification is the record of its id and the     *)
(* duration it was shown with, <<>> for none; the ids Math.random() gives  *)
(* are taken to be distinct and are numbered in the order of the calls.    *)
(***************************************************************************)
DefaultDuration == 5000
RemovingAnimation == 300

\* the durations showNotification is called with: <<>> when the
\* notification has no duration, else <<ms>> with a positive ms
Durations == {<<>>, <<3000>>}

initialBanner ==
  [notifications |-> <<>>,   \* this.notifications: [id, duration]
   container |-> FALSE,      \* this.container is set (render() has run)
   elements |-> <<>>,        \* the children of the container: [id, removing]
   timers |-> <<>>,          \* pending setTimeout callbacks:
                             \* [kind, id, delay], kind "dismiss" or "remove"
   ids |-> 0]                \* showNotification calls so far

RECURSIVE Filter(_, _)
Filter(seq, id) ==
  IF seq = <<>> THEN <<>>
  ELSE IF Head(seq).id # id THEN <<Head(seq)>> \o Filter(Tail(seq), id)
  ELSE Filter(Tail(seq), id)

\* render(): the shadow root is rewritten and the container looked up
render(B) == [B EXCEPT !.container = TRUE, !.elements = <<>>]

addNotificationElement(B, notification) ==
  IF ~B.container THEN B
  ELSE [B EXCEPT !.elements = Append(@, [id |-> notification.id, removing |-> FALSE])]

\* the first element with that data-id gets the class 'removing' and a
\* timer that takes it out of the container
removeNotificationElement(B, id) ==
  IF ~B.container \/ ~(\E i \in DOMAIN B.elements : B.elements[i].id = id) THEN B
  ELSE LET i == CHOOSE i \in DOMAIN B.elements :
                  /\ B.elements[i].id = id
                  /\ \A j \in 1..(i - 1) : B.elements[j].id # id
       IN [B EXCEPT !.elements[i].removing = TRUE,
                    !.timers = Append(@, [kind |-> "remove", id |-> id,
                                          delay |-> RemovingAnimation])]

removeNotification(B, id) ==
  removeNotificationElement([B EXCEPT !.notifications = Filter(@, id)], id)

\* const duration = notification.duration || 5000
showNotification(B, duration) ==
  LET id == B.ids + 1
      notificationWithId == [id |-> id, duration |-> duration]
      B1 == addNotificationElement(
              [B EXCEPT !.ids = id, !.notifications = Append(@, notificationWithId)],
              notificationWithId)
      delay == IF duration = <<>> \/ duration = <<0>> THEN DefaultDuration
               ELSE duration[1]
  IN [B1 EXCEPT !.timers = Append(@, [kind |-> "dismiss", id |-> id,
                                      delay |-> delay])]

RemoveAt(seq, i) == SubSeq(seq, 1, i - 1) \o SubSeq(seq, i + 1, Len(seq))

BannerStep(B, name) ==
  /\ banner' = B
  /\ op' = name
  /\ returned' = Undefined
  /\ UNCHANGED <<storeVars, wsService, apiVars, docService>>

Banner_connectedCallback ==
  /\ banner' = render(banner)
  /\ op' = "connectedCallback"
  /\ returned' = Undefined
  /\ UNCHANGED <<storeVars, wsService, apiVars, docService>>

Banner_showNotification(duration) ==
  /\ banner.ids < MaxShown
  /\ BannerStep(showNotification(banner, duration), "showNotification")

\* the setTimeout callback of showNotification
DismissTimerFires(i) ==
  /\ i \in DOMAIN banner.timers
  /\ banner.timers[i].kind = "dismiss"
  /\ BannerStep(removeNotification([banner EXCEPT !.timers = RemoveAt(@, i)],
                                   banner.timers[i].id),
                "dismissTimer")

\* the click handler of an element's close button; a click on an element
\* that is already leaving adds one more timer, so the clicks are counted
\* against the timers pending
CloseButtonClicked(e) ==
  /\ e \in DOMAIN banner.elements
  /\ Len(banner.timers) < MaxBannerTimers
  /\ BannerStep(removeNotification(banner, banner.elements[e].id), "closeClicked")

\* the setTimeout callback of removeNotificationElement: notificationEl.remove()
RemoveTimerFires(i) ==
  /\ i \in DOMAIN banner.timers
  /\ banner.timers[i].kind = "remove"
  /\ BannerStep([banner EXCEPT !.timers = RemoveAt(@, i),
                               !.elements = Filter(@, banner.timers[i].id)],
                "removeTimer")

NextBanner ==
  \/ Banner_connectedCallback
  \/ \E duration \in Durations : Banner_showNotification(duration)
  \/ \E i \in DOMAIN banner.timers : DismissTimerFires(i)
  \/ \E e \in DOMAIN banner.elements : CloseButtonClicked(e)
  \/ \E i \in DOMAIN banner.timers : RemoveTimerFires(i)

Init ==
  /\ state = initialState
  /\ listeners = <<>>
  /\ calls = <<>>
  /\ op = "init"
  /\ wsService = initialWsService
  /\ rf = initialRf
  /\ fd = initialFd
  /\ docService = initialDocService
  /\ returned = Undefined
  /\ banner = initialBanner

Next ==
  \/ \E l \in ListenerIds : Store_subscribe(l)
  \/ \E l \in ListenerIds : Store_unsubscribe(l)
  \/ \E partial \in Partials : Store_setState(partial)
  \/ \E documents \in SampleLists : AppStore_setDocuments(documents)
  \/ \E document \in SampleDocs : AppStore_addDocument(document)
  \/ \E isLoading \in BOOLEAN : AppStore_setLoading(isLoading)
  \/ \E error \in ErrorMessages \cup {Null} : AppStore_setError(error)
  \/ AppStore_clearError
  \/ \E viewMode \in {"list", "grid"} : AppStore_setViewMode(viewMode)
  \/ AppStore_toggleViewMode

Spec == Init /\ [][Next]_vars

\* the store with callers that mutate what getState() gave them
NextCopy ==
  \/ \E m \in Mutations : Caller_mutatesReturned(m)
  \/ \E document \in SampleDocs : AppStore_addDocument(document)
  \/ \E isLoading \in BOOLEAN : AppStore_setLoading(isLoading)
  \/ \E l \in ListenerIds : Store_subscribe(l)

SpecCopy == Init /\ [][NextCopy]_vars

\* documents that are sorted: each criterion has two with an equal key
SortDocs ==
  { DocumentModel("s1", "Alpha", <<>>, 3, 10, <<>>),
    DocumentModel("s2", "Beta", <<>>, 1, 10, <<>>),
    DocumentModel("s3", "Alpha", <<>>, 2, 30, <<>>),
    DocumentModel("s4", "Gamma", <<>>, 1, 20, <<>>) }

\* the lists of distinct documents the store holds
SortLists ==
  {ds \in UNION {[1..n -> SortDocs] : n \in 0..MaxSortLen} : NoDup(ds)}

SortOptions == {"name", "version", "createdAt"}

\* the store after a setDocuments(documents) on the new store
InitSort ==
  /\ listeners = <<>>
  /\ \E documents \in SortLists :
       state = setDocuments([state |-> initialState, calls |-> <<>>], documents).state
  /\ calls = <<>>
  /\ op = "init"
  /\ wsService = initialWsService
  /\ rf = initialRf
  /\ fd = initialFd
  /\ docService = initialDocService
  /\ returned = Undefined
  /\ banner = initialBanner

NextSort ==
  \/ \E sortBy \in SortOptions : AppStore_setSortBy(sortBy)
  \/ \E sortOrder \in {"asc", "desc"} : AppStore_setSortOrder(sortOrder)
  \/ AppStore_getSortedDocuments
  \/ Store_subscribe("l1")

SpecSort == InitSort /\ [][NextSort]_vars

NextWS ==
  \/ \E throws \in BOOLEAN : WS_connect(throws)
  \/ WS_disconnect
  \/ \E s \in DOMAIN wsService.sockets : TransportOpens(s)
  \/ \E s \in DOMAIN wsService.sockets : TransportErrors(s)
  \/ \E s \in DOMAIN wsService.sockets, code \in {NormalClosure, GoingAway, AbnormalClosure} :
       TransportCloses(s, code)
  \/ \E i \in DOMAIN wsService.timers, throws \in BOOLEAN : ReconnectTimerFires(i, throws)

SpecWS == Init /\ [][NextWS]_vars

SpecApi == Init /\ [][NextApi]_vars

SpecDoc == Init /\ [][NextDoc]_vars

\* loads that overlap, and documents created while they are in flight
NextLoad ==
  \/ Len(docService.pending) < MaxPending /\ DS_loadDocuments
  \/ \E i \in DOMAIN docService.pending, outcome \in LoadOutcomes :
       LoadSettles(i, outcome)
  \/ \E now \in ClockTimes : DS_createDocument("New", <<"Jane">>, <<>>, now)

\* the service set up several times and torn down: initialize() calls one
\* after another, the last of them possibly still awaiting its load when
\* destroy() is called, and live messages on the open connections
NextTeardown ==
  \/ /\ docService.inits < MaxTeardownInits
     /\ docService.pending = <<>>
     /\ DS_initialize
  \/ \E i \in DOMAIN docService.pending :
       LoadSettles(i, [ok |-> TRUE, documents |-> <<ServerDocs[1]>>, message |-> Null])
  \/ DS_destroy
  \/ \E callback \in {"banner"} : DS_onNotification(callback)
  \/ \E s \in DOMAIN wsService.sockets : TransportOpens(s)
  \/ \E s \in DOMAIN wsService.sockets, draw \in RandomDraws :
       TransportMessage(s, WebSocketMessage("live1", "Live", "Remote", 30),
                        draw.extra, draw.files)

SpecTeardown == Init /\ [][NextTeardown]_vars

SpecBanner == Init /\ [][NextBanner]_vars

\* initialize() and loads, one at a time, with listeners subscribed to
\* the store
NextSettle ==
  \/ /\ docService.inits < MaxInits
     /\ docService.pending = <<>>
     /\ DS_initialize
  \/ docService.pending = <<>> /\ DS_loadDocuments
  \/ \E i \in DOMAIN docService.pending, outcome \in LoadOutcomes :
       LoadSettles(i, outcome)
  \/ \E l \in ListenerIds : Store_subscribe(l)

SpecSettle == Init /\ [][NextSettle]_vars

NextNested ==
  \/ \E l \in {"l1", "re"} : Store_subscribe(l)
  \/ \E partial \in NestedPartials : Store_setStateNested(partial)

SpecNested == Init /\ [][NextNested]_vars

SpecLoad == Init /\ [][NextLoad]_vars

(***************************************************************************)
(* C1: in every setState call, no listener is invoked when the serialized  *)
(* state after the merge equals the serialized state before it, and each   *)
(* listener subscribed at the call is invoked exactly once when it differs.*)
(***************************************************************************)
C1_NotifiedIffSerializedStateDiffers ==
  \A i \in DOMAIN calls :
    LET c == calls[i]
        invoked == [j \in DOMAIN c.notified |-> c.notified[j].listener]
    IN IF JSONstringify(c.prev) = JSONstringify(c.next)
       THEN invoked = <<>>
       ELSE /\ Range(invoked) = Range(c.listeners)
            /\ \A l \in Range(c.listeners) : Count(l, invoked) = 1

\* documents set to an array with the same (non-empty) contents while a
\* listener is subscribed: nothing is notified
C1_Witness ==
  /\ op = "setDocuments"
  /\ Len(calls) = 1
  /\ calls[1].prev.documents # <<>>
  /\ calls[1].prev = calls[1].next
  /\ calls[1].listeners # <<>>
  /\ calls[1].notified = <<>>

(***************************************************************************)
(* WebSocketService claims, under SpecWS.                                  *)
(***************************************************************************)
AllClosed(W) == \A s \in DOMAIN W.sockets : W.sockets[s] = "closed"

\* not torn down, the reconnect attempts used up, nothing connecting or
\* open and no reconnect timer pending
Exhausted(W) ==
  /\ ~W.isDestroyed
  /\ W.reconnectAttempts = 5
  /\ W.timers = <<>>
  /\ AllClosed(W)

\* C3: at most 5 reconnects are scheduled without a successful open in
\* between; a connection attempt that fails once the reconnect-attempt
\* count is 5 schedules no timer; and the exhausted client stays
\* disconnected with no timer pending until connect() is called (or the
\* client is torn down).
C3_NoSixthReconnect ==
  [][ /\ Len(wsService'.delays) <= 5
      /\ (wsService.reconnectAttempts = 5 /\ op' \in {"close", "error", "timer"}
            => /\ Len(wsService'.timers) <= Len(wsService.timers)
               /\ Len(wsService'.sockets) + Len(wsService'.timers)
                    <= Len(wsService.sockets) + Len(wsService.timers))
      /\ (Exhausted(wsService) /\ op' \notin {"connect", "disconnect"}
            => Exhausted(wsService')) ]_vars

\* one connect() call, the first attempt and the 5 reconnects all failed
C3_Witness ==
  /\ Exhausted(wsService)
  /\ op = "close"
  /\ wsService.connectCalls = 1
  /\ Len(wsService.sockets) = 6
  /\ Len(wsService.delays) = 5

\* C4: the n-th reconnect scheduled since the last successful open (or
\* since start) waits 1000 * 2^(n-1) ms: 1000, 2000, 4000, 8000, 16000.
C4_ExponentialBackoff ==
  /\ Len(wsService.delays) <= 5
  /\ wsService.delays =
       SubSeq(<<1000, 2000, 4000, 8000, 16000>>, 1, Len(wsService.delays))
  /\ Range(wsService.timers) \subseteq {1000, 2000, 4000, 8000, 16000}

C4_Witness ==
  /\ Len(wsService.delays) = 5
  /\ wsService.timers = <<16000>>

\* C5: once disconnect() has been called the client stays torn down and
\* no transport connection is created; a later connect() and a reconnect
\* timer that fires later change nothing of the service.
C5_NoConnectionAfterDisconnect ==
  [][ wsService.isDestroyed =>
        /\ wsService'.isDestroyed
        /\ Len(wsService'.sockets) = Len(wsService.sockets)
        /\ Len(wsService'.timers) <= Len(wsService.timers)
        /\ (op' \in {"connect", "timer"} =>
              /\ wsService'.sockets = wsService.sockets
              /\ wsService'.ws = wsService.ws
              /\ wsService'.reconnectAttempts = wsService.reconnectAttempts
              /\ wsService'.statusLog = <<>>) ]_vars

\* a reconnect timer scheduled before disconnect() has fired after it
C5_Witness ==
  /\ wsService.isDestroyed
  /\ op = "timer"

(***************************************************************************)
(* ApiService claims, under SpecApi.                                       *)
(***************************************************************************)
Is4xx(o) == o.kind = "response" /\ o.status >= 400 /\ o.status <= 499
Is5xx(o) == o.kind = "response" /\ o.status >= 500
RetryableFailure(o) == o.kind = "reject" \/ Is5xx(o)

AllOutcomes(P(_)) == \A i \in DOMAIN rf.outcomes : P(rf.outcomes[i])

\* C6: while every answer of the endpoint is a non-5xx error status and
\* maxRetries >= 1, retryFetch makes 1 fetch, waits for nothing and has
\* raised as soon as that fetch settles.
C6_NonRetryableStatusFailsAtOnce ==
  (rf.maxRetries >= 1 /\ rf.outcomes # <<>> /\ AllOutcomes(Is4xx))
    => /\ Len(rf.outcomes) = 1
       /\ rf.waits = <<>>
       /\ rf.pc = "thrown"

\* C7: while every answer is a 5xx status (maxRetries >= 1) retryFetch
\* never returns and never fetches more than maxRetries times; it has
\* raised exactly when maxRetries fetches were made, and what it raises is
\* the HTTP error of the last answer.
C7_ServerErrorsUseAllAttempts ==
  (rf.maxRetries >= 1 /\ AllOutcomes(Is5xx) /\ rf.pc # "idle")
    => /\ rf.pc # "returned"
       /\ Len(rf.outcomes) + (IF rf.pc = "fetch" THEN 1 ELSE 0) <= rf.maxRetries
       /\ rf.pc = "thrown" <=> Len(rf.outcomes) = rf.maxRetries
       /\ rf.pc = "thrown" =>
            rf.result = HttpError(rf.outcomes[Len(rf.outcomes)].status)

\* the default of 3 attempts, all answered 5xx
C7_Witness ==
  /\ rf.pc = "thrown"
  /\ rf.maxRetries = 3
  /\ Len(rf.outcomes) = 3
  /\ AllOutcomes(Is5xx)

\* C8: when the first k-1 fetches fail (5xx or rejection) and the k-th is
\* ok, k <= maxRetries, retryFetch returns that response after k fetches,
\* having waited delay * i after the i-th failure and nothing more; it
\* does not give up before maxRetries fetches have failed.
C8_LinearBackoffUntilSuccess ==
  LET k == Len(rf.outcomes)
      failedBefore(n) == \A i \in 1..n : RetryableFailure(rf.outcomes[i])
  IN /\ (k >= 1 /\ failedBefore(k - 1) /\ ok(rf.outcomes[k]) /\ rf.outcomes[k].kind = "response")
          => /\ rf.pc = "returned"
             /\ rf.result = rf.outcomes[k]
             /\ k <= rf.maxRetries
             /\ rf.waits = [i \in 1..(k - 1) |-> rf.delay * i]
     /\ (failedBefore(k) /\ k < rf.maxRetries /\ rf.pc # "idle")
          => /\ rf.pc \in {"fetch", "delay"}
             /\ rf.waits = [i \in 1..k |-> rf.delay * i]

\* a 5xx answer, a rejection, then success, with the default delay
C8_Witness ==
  /\ rf.pc = "returned"
  /\ Len(rf.outcomes) = 3
  /\ Is5xx(rf.outcomes[1])
  /\ rf.outcomes[2].kind = "reject"
  /\ rf.delay = 1000
  /\ rf.waits = <<1000, 2000>>

FdDone == fd.pc \in {"returned", "thrown"}
FdNot2xx == fd.response.kind = "response" /\ ~ok(fd.response)
FdRejected == fd.response.kind = "reject"

DuplicateArrives ==
  /\ op' = "message"
  /\ wsService'.received.kind = "json"
  /\ wsService'.received.DocumentID \in Ids(state.documents)

\* C2: a live message whose DocumentID is the id of a document already in
\* the store leaves the documents list as it was (count, entries, order)
\* and no notification reaches any notification subscriber.
C2_DuplicateMessageChangesNothing ==
  [][DuplicateArrives =>
       /\ state'.documents = state.documents
       /\ docService'.notifications = <<>>]_vars

\* a duplicate has been delivered to a registered handler, with a
\* notification subscriber listening, and nothing was written or notified
C2_Witness ==
  /\ op = "message"
  /\ wsService.received.kind = "json"
  /\ wsService.received.DocumentID \in Ids(state.documents)
  /\ wsService.documentHandlers # {}
  /\ docService.notificationCallbacks # <<>>
  /\ docService.notifications = <<>>
  /\ calls = <<>>

\* C10: createDocument(name, contributors, attachments) returns a document
\* with a fresh id, version 1, the given name, contributors and
\* attachments, and that document is at index 0 of the store's documents,
\* whose count has grown by exactly one.
C10_CreateDocumentKeepsItsArguments ==
  (op = "createDocument") =>
    LET c == docService.lastCall
        before == calls[1].prev.documents
    IN /\ c.returned.id \notin Ids(before)
       /\ c.returned.version = 1
       /\ c.returned.name = c.name
       /\ c.returned.contributors = c.contributors
       /\ c.returned.attachments = c.attachments
       /\ Len(state.documents) = Len(before) + 1
       /\ state.documents[1] = c.returned

\* the operation that just ended completed a load, by its last call
\* record, and left no other load in flight
LoadCompleted ==
  /\ op = "loadSettles"
  /\ docService.lastCall.kind = "load"
  /\ docService.pending = <<>>

\* C11 as stated: a load that completes with no other load in progress
\* leaves isLoading false; on success documents is the fetched list and
\* error is null; on failure error is the failure message and documents is
\* what it was before the call.
C11_FailedLoadHasDocumentsOfTheCall ==
  LoadCompleted =>
    LET c == docService.lastCall
    IN /\ state.isLoading = FALSE
       /\ IF c.outcome.ok
          THEN state.documents = c.outcome.documents /\ state.error = Null
          ELSE state.error = c.outcome.message /\ state.documents = c.before

\* C11: a load that completes with no other load in progress leaves
\* isLoading false; on success documents is the fetched list and error is
\* null; on failure error is the failure message and documents is what it
\* was when the fetch settled (the first setState call of the completion
\* starts from it), documents added during the fetch included.
C11_FailedLoadKeepsCurrentDocuments ==
  LoadCompleted =>
    LET c == docService.lastCall
    IN /\ state.isLoading = FALSE
       /\ IF c.outcome.ok
          THEN state.documents = c.outcome.documents /\ state.error = Null
          ELSE state.error = c.outcome.message
               /\ state.documents = calls[1].prev.documents

\* a refresh failed after a document was added during its fetch
C11_Witness ==
  /\ LoadCompleted
  /\ ~docService.lastCall.outcome.ok
  /\ ~docService.lastCall.byInit
  /\ state.error = GenericFetchError
  /\ state.documents # <<>>
  /\ state.documents # docService.lastCall.before
  /\ calls[1].prev.isLoading

\* the step completes the load of an initialize() call
InitLoadSettles ==
  /\ op' = "loadSettles"
  /\ docService'.lastCall.kind = "load"
  /\ docService'.lastCall.byInit

\* C12: initialize() loads, then subscribes, then connects: a message
\* handler is registered and a connection is created only by the step
\* that finishes the initial load, whatever the fetch gave; that step
\* leaves isLoading false, the error set to the failure message after a
\* failed fetch, the new handler registered and, unless the service was
\* destroyed meanwhile, a new connection being established.
C12_LoadThenSubscribeThenConnect ==
  [][/\ (wsService'.documentHandlers \ wsService.documentHandlers # {}
         \/ Len(wsService'.sockets) > Len(wsService.sockets))
        => InitLoadSettles
     /\ InitLoadSettles =>
          LET c == docService'.lastCall
          IN /\ state'.isLoading = FALSE
             /\ (~c.outcome.ok => state'.error = c.outcome.message)
             /\ (c.outcome.ok => state'.documents = c.outcome.documents)
             /\ docService'.wsUnsubscribe
                  \in wsService'.documentHandlers \ wsService.documentHandlers
             /\ (~wsService.isDestroyed =>
                   /\ Len(wsService'.sockets) = Len(wsService.sockets) + 1
                   /\ wsService'.ws = Len(wsService'.sockets)
                   /\ wsService'.sockets[wsService'.ws] = "connecting")]_vars

\* an initialize() whose fetch failed has subscribed and is connecting
C12_Witness ==
  /\ op = "loadSettles"
  /\ docService.lastCall.kind = "load"
  /\ docService.lastCall.byInit
  /\ ~docService.lastCall.outcome.ok
  /\ state.error = GenericFetchError
  /\ ~state.isLoading
  /\ wsService.documentHandlers = {docService.wsUnsubscribe}
  /\ wsService.sockets = <<"connecting">>

(***************************************************************************)
(* AppStore and Store claims, under Spec.                                  *)
(***************************************************************************)
\* the fields of st other than those of ks are as in su
SameExcept(st, su, ks) == \A k \in DOMAIN st \ ks : st[k] = su[k]

\* C13: setError(msg) leaves isLoading false whatever it was, sets error
\* to msg and leaves documents, sortBy, sortOrder and viewMode unchanged.
C13_SetErrorClearsLoading ==
  [][\A error \in ErrorMessages \cup {Null} :
       AppStore_setError(error) =>
         /\ state'.isLoading = FALSE
         /\ state'.error = error
         /\ SameExcept(state', state, {"isLoading", "error"})]_vars

\* setError(msg) was called while the store was loading
C13_Witness ==
  /\ op = "setError"
  /\ calls[1].prev.isLoading
  /\ calls[1].prev.documents # <<>>
  /\ state.error \in ErrorMessages
  /\ ~state.isLoading

C18_ThrowingListenerIsContained ==
  [][/\ \A i \in DOMAIN calls' :
          LET c == calls'[i]
          IN (c.notified # <<>> /\ \E l \in Range(c.listeners) : ListenerThrows(l)) =>
               /\ ~c.threw
               /\ c.notified = [j \in DOMAIN c.listeners |->
                                 [listener |-> c.listeners[j], state |-> c.next]]
     /\ \A partial \in Partials :
          Store_setState(partial) => state' = Merge(state, partial)
     /\ calls' # <<>> => state' = calls'[Len(calls')].next]_vars

\* a change was notified with the throwing listener subscribed before
\* another one
C18_Witness ==
  /\ op = "setState"
  /\ calls[1].listeners = <<"bad", "l1">>
  /\ calls[1].prev # calls[1].next
  /\ Len(calls[1].notified) = 2
  /\ calls[1].notified[2].listener = "l1"
  /\ state = calls[1].next

\* C20: the de-registration function removes its listener and no other;
\* a listener that is not registered is invoked by no setState, and only
\* subscribe registers it again; the registered ones are all notified of a
\* change; de-registering a listener that is not registered changes
\* nothing.
C20_UnsubscribedListenerIsNotInvoked ==
  [][/\ \A l \in ListenerIds :
          /\ Store_unsubscribe(l) =>
               /\ Range(listeners') = Range(listeners) \ {l}
               /\ (l \notin Range(listeners) => listeners' = listeners)
               /\ state' = state
          /\ l \notin Range(listeners) =>
               /\ \A i \in DOMAIN calls' : \A j \in DOMAIN calls'[i].notified :
                    calls'[i].notified[j].listener # l
               /\ (l \in Range(listeners') => op' = "subscribe")
     /\ \A i \in DOMAIN calls' :
          calls'[i].prev # calls'[i].next =>
            \A l \in Range(listeners) :
              \E j \in DOMAIN calls'[i].notified : calls'[i].notified[j].listener = l]_vars

\* a de-registration has removed its listener and left another subscribed
C20_Witness ==
  /\ op = "unsubscribe"
  /\ returned = TRUE
  /\ listeners # <<>>

(***************************************************************************)
(* getSortedDocuments claims, under SpecSort.                              *)
(***************************************************************************)
\* C15: getSortedDocuments() changes nothing in the store (the documents
\* and their order, every other field), calls no setState and so notifies
\* no listener, and a call that follows another with nothing in between
\* returns the same list.
C15_GetSortedDocumentsIsPure ==
  [][op' = "getSortedDocuments" =>
       /\ state' = state
       /\ listeners' = listeners
       /\ calls' = <<>>
       /\ (op = "getSortedDocuments" => returned' = returned)]_vars

\* a call returned another order than the one the state holds, with a
\* listener subscribed
C15_Witness ==
  /\ op = "getSortedDocuments"
  /\ Len(state.documents) >= 2
  /\ returned # state.documents
  /\ listeners # <<>>

\* the key of a document under a criterion, as a number
SortKey(d, sortBy) ==
  IF sortBy = "name" THEN CollationIndex(d.name)
  ELSE IF sortBy = "version" THEN d.version
  ELSE getTime(d.createdAt)

Versions(ds) == [i \in DOMAIN ds |-> ds[i].version]

\* C16: the list returned is a permutation of state.documents whose keys
\* under the active criterion do not decrease when sortOrder is asc and do
\* not increase when it is desc.
C16_SortedByActiveCriterion ==
  (op = "getSortedDocuments") =>
    /\ Len(returned) = Len(state.documents)
    /\ \A d \in Range(state.documents) \cup Range(returned) :
         Count(d, returned) = Count(d, state.documents)
    /\ \A i, j \in DOMAIN returned :
         i < j =>
           IF state.sortOrder = "asc"
           THEN SortKey(returned[i], state.sortBy) <= SortKey(returned[j], state.sortBy)
           ELSE SortKey(returned[i], state.sortBy) >= SortKey(returned[j], state.sortBy)

\* versions [3, 1, 2] sorted ascending give [1, 2, 3]
C16_Witness ==
  /\ op = "getSortedDocuments"
  /\ state.sortBy = "version"
  /\ state.sortOrder = "asc"
  /\ Versions(state.documents) = <<3, 1, 2>>
  /\ Versions(returned) = <<1, 2, 3>>

\* the position of a document in a list without repetition
IndexOf(d, ds) == CHOOSE i \in DOMAIN ds : ds[i] = d

\* C17: documents with an equal key under the active criterion come out
\* in the relative order they have in state.documents, for asc and for
\* desc.
C17_SortIsStable ==
  (op = "getSortedDocuments") =>
    \A i, j \in DOMAIN returned :
      (i < j /\ SortKey(returned[i], state.sortBy) = SortKey(returned[j], state.sortBy))
        => IndexOf(returned[i], state.documents) < IndexOf(returned[j], state.documents)

\* a descending sort moved a document past two that share a key
C17_Witness ==
  /\ op = "getSortedDocuments"
  /\ state.sortOrder = "desc"
  /\ Len(returned) = 3
  /\ returned # state.documents
  /\ \E i \in 1..2 :
       SortKey(returned[i], state.sortBy) = SortKey(returned[i + 1], state.sortBy)

(***************************************************************************)
(* getState(), under SpecCopy.                                             *)
(***************************************************************************)
\* C19: getState() returns a defensive copy: after a caller mutated the
\* value it got (a top-level field reassigned, an entry added to or
\* removed from its documents list) getState() returns the same content
\* as before the mutation.
C19_GetStateIsDefensiveCopy ==
  (op = "mutateReturned") => returned.second = returned.first

(***************************************************************************)
(* Store notifications, under SpecSettle, whose operations make several    *)
(* setState calls; the view mode, under Spec.                              *)
(***************************************************************************)
\* C21: a setState call that changes the serialized state invokes, within
\* the call, the listeners subscribed at that moment, in subscription
\* order, each with the state after the merge; the calls of an operation
\* follow one another on the state the one before left, so a listener
\* gets one notification per change, in the order of the changes.
C21_NotifiedInSubscriptionOrder ==
  /\ \A i \in DOMAIN calls :
       LET c == calls[i]
       IN /\ c.listeners = listeners
          /\ JSONstringify(c.prev) # JSONstringify(c.next) =>
               c.notified = [j \in DOMAIN listeners |->
                               [listener |-> listeners[j], state |-> c.next]]
          /\ (i > 1 => c.prev = calls[i - 1].next)
  /\ calls # <<>> => state = calls[Len(calls)].next

\* a load that follows a failed one made two changes, loading set and the
\* error cleared, and each was notified to the two listeners, the first
\* subscribed first
C21_Witness ==
  /\ op = "loadDocuments"
  /\ listeners = <<"l1", "bad">>
  /\ Len(calls) = 2
  /\ calls[1].prev.error = GenericFetchError
  /\ \A i \in 1..2 :
       /\ Len(calls[i].notified) = 2
       /\ calls[i].notified[1].listener = "l1"
       /\ calls[i].notified[2].listener = "bad"
  /\ calls[1].notified[1].state.isLoading
  /\ calls[1].notified[1].state.error = GenericFetchError
  /\ calls[2].notified[1].state.error = Null

\* C28: toggleViewMode() switches viewMode from list to grid and from
\* grid to list and leaves the other fields unchanged, so a toggle that
\* follows a toggle restores the viewMode the first one started from.
C28_ToggleViewModeIsInvolution ==
  [][AppStore_toggleViewMode =>
       /\ (state.viewMode = "list" => state'.viewMode = "grid")
       /\ (state.viewMode = "grid" => state'.viewMode = "list")
       /\ SameExcept(state', state, {"viewMode"})
       /\ (op = "toggleViewMode" => state' = calls[1].prev)]_vars

\* a second toggle in a row has restored the list view
C28_Witness ==
  /\ op = "toggleViewMode"
  /\ state.viewMode = "list"
  /\ calls[1].prev.viewMode = "grid"
  /\ state.documents # <<>>

(***************************************************************************)
(* WebSocketService: close, error and open events, under SpecWS.           *)
(***************************************************************************)
\* the step schedules one reconnect: the attempt is counted and a timer
\* with the backoff delay of that attempt is added
ReconnectScheduled ==
  /\ wsService'.reconnectAttempts = wsService.reconnectAttempts + 1
  /\ wsService'.timers =
       Append(wsService.timers, backoffDelay(wsService.reconnectAttempts + 1))

\* the step schedules nothing
NothingScheduled ==
  /\ wsService'.reconnectAttempts = wsService.reconnectAttempts
  /\ wsService'.timers = wsService.timers

CodesOfClose == {NormalClosure, GoingAway, AbnormalClosure}

\* C24 as stated: a close notifies 'disconnected'; while the client is not
\* torn down every close schedules a reconnect (within the 5 attempts),
\* whatever its code; a close after disconnect() schedules none.
C24_EveryCloseReconnects ==
  [][\A s \in DOMAIN wsService.sockets, code \in CodesOfClose :
       TransportCloses(s, code) =>
         /\ wsService'.statusLog = <<"disconnected">>
         /\ (~wsService.isDestroyed /\ canScheduleReconnect(wsService)
               => ReconnectScheduled)
         /\ (wsService.isDestroyed => NothingScheduled)]_vars

\* C24: a close notifies 'disconnected'; while the client is not torn
\* down a close with a code other than 1000 schedules a reconnect (within
\* the 5 attempts); a close with code 1000, the server's included, and
\* every close after disconnect() schedule none.
C24_AbnormalCloseReconnects ==
  [][\A s \in DOMAIN wsService.sockets, code \in CodesOfClose :
       TransportCloses(s, code) =>
         /\ wsService'.statusLog = <<"disconnected">>
         /\ (~wsService.isDestroyed /\ code # NormalClosure
               /\ canScheduleReconnect(wsService)
               => ReconnectScheduled)
         /\ (wsService.isDestroyed \/ code = NormalClosure => NothingScheduled)]_vars

\* the server closed an open connection with code 1000: the client is
\* not torn down, nothing is left connecting and no reconnect is pending
C24_Witness ==
  /\ op = "close"
  /\ ~wsService.isDestroyed
  /\ wsService.statusLog = <<"disconnected">>
  /\ wsService.sockets = <<"closed">>
  /\ wsService.reconnectAttempts = 0
  /\ wsService.timers = <<>>

\* C25 as stated: an error event notifies 'error' and schedules a
\* reconnect unless the client is torn down or the 5 attempts are used.
C25_ErrorSchedulesReconnect ==
  [][\A s \in DOMAIN wsService.sockets :
       TransportErrors(s) =>
         /\ wsService'.statusLog = <<"error">>
         /\ (canScheduleReconnect(wsService) => ReconnectScheduled)]_vars

\* C25: an error event notifies 'error' and marks the connection as
\* failing, whose close event, the only event it still has, schedules the
\* reconnect unless the client is torn down or the 5 attempts are used; a
\* WebSocket constructor that throws is caught inside connect(), which
\* notifies 'error' and schedules the reconnect itself.
C25_ErrorNotifiesAndReconnects ==
  [][/\ \A s \in DOMAIN wsService.sockets :
          TransportErrors(s) =>
            /\ wsService'.statusLog = <<"error">>
            /\ wsService'.sockets[s] = "failing"
            /\ CloseCodes(wsService', s) = {AbnormalClosure}
     /\ \A s \in DOMAIN wsService.sockets, code \in CodesOfClose :
          (wsService.sockets[s] = "failing" /\ TransportCloses(s, code)) =>
            IF canScheduleReconnect(wsService) THEN ReconnectScheduled
            ELSE NothingScheduled
     /\ \A s \in DOMAIN wsService.sockets :
          (wsService.sockets[s] = "failing" /\ wsService'.sockets[s] # "failing")
            => op' = "close"
     /\ (WS_connect(TRUE) /\ ~wsService.isDestroyed) =>
          /\ wsService'.statusLog = <<"connecting", "error">>
          /\ wsService'.sockets = wsService.sockets
          /\ IF canScheduleReconnect(wsService) THEN ReconnectScheduled
             ELSE NothingScheduled]_vars

\* an open connection had an error: 'error' is notified and, until its
\* close event arrives, no reconnect is pending
C25_Witness ==
  /\ op = "error"
  /\ ~wsService.isDestroyed
  /\ wsService.sockets = <<"failing">>
  /\ wsService.statusLog = <<"error">>
  /\ wsService.reconnectAttempts = 0
  /\ wsService.timers = <<>>

\* C26: at most one transport connection is connecting or open, and at
\* most one reconnect timer is pending.
C26_SingleLiveConnection ==
  /\ Cardinality(Live(wsService)) <= 1
  /\ Len(wsService.timers) <= 1

\* C29: an open event resets the reconnect-attempt counter to 0 and
\* notifies 'connected'; the reconnect scheduled when the counter is 0
\* waits the base delay and is attempt 1 of 5.
C29_OpenResetsBackoff ==
  [][/\ \A s \in DOMAIN wsService.sockets :
          TransportOpens(s) =>
            /\ wsService'.reconnectAttempts = 0
            /\ wsService'.delays = <<>>
            /\ wsService'.statusLog = <<"connected">>
            /\ maxReconnectAttempts - wsService'.reconnectAttempts = 5
            /\ (~wsService.isDestroyed => canScheduleReconnect(wsService'))
     /\ (wsService.reconnectAttempts = 0
          /\ Len(wsService'.timers) > Len(wsService.timers)) =>
          /\ wsService'.timers = Append(wsService.timers, reconnectDelay)
          /\ wsService'.reconnectAttempts = 1
          /\ wsService'.delays = <<reconnectDelay>>]_vars

\* one connect(): the first connection failed, its reconnect opened and
\* was lost, and the reconnect now pending waits the base delay again
C29_Witness ==
  /\ op = "close"
  /\ wsService.connectCalls = 1
  /\ wsService.sockets = <<"closed", "closed">>
  /\ wsService.reconnectAttempts = 1
  /\ wsService.timers = <<reconnectDelay>>
  /\ wsService.delays = <<reconnectDelay>>

(***************************************************************************)
(* DocumentService: new and unparseable live messages, under SpecDoc.      *)
(***************************************************************************)
\* the operation that just ended delivered, to a service that has its
\* message handler registered, a live message for an id no document of the
\* store had
NewDocumentArrives ==
  /\ op' = "message"
  /\ wsService'.received.kind = "json"
  /\ wsService'.received.DocumentID \notin Ids(state.documents)
  /\ wsService.documentHandlers # {}

\* C22: a live message whose DocumentID is the id of no document in the
\* store puts at index 0 a document with that id, the title as name,
\* version 1, the timestamp as createdAt and the user as first
\* contributor, the documents before it following unchanged, and every
\* notification subscriber gets exactly one 'info' notification naming
\* the title and the user.
C22_NewMessagePrependsAndNotifies ==
  [][NewDocumentArrives =>
       LET message == wsService'.received
           added == state'.documents[1]
       IN /\ Len(state'.documents) = Len(state.documents) + 1
          /\ Tail(state'.documents) = state.documents
          /\ added.id = message.DocumentID
          /\ added.name = message.DocumentTitle
          /\ added.version = 1
          /\ added.createdAt = message.Timestamp
          /\ added.contributors[1] = message.UserName
          /\ docService'.notifications =
               [i \in DOMAIN docService.notificationCallbacks |->
                  [callback |-> docService.notificationCallbacks[i],
                   notification |->
                     [message |-> <<"New document", message.DocumentTitle,
                                    "created by", message.UserName>>,
                      type |-> "info", duration |-> NotificationDuration]]]]_vars

\* a new document has arrived in a store that held the fetched ones, and
\* the notification subscriber was told once
C22_Witness ==
  /\ op = "message"
  /\ wsService.received.kind = "json"
  /\ Len(state.documents) >= 2
  /\ state.documents[1].id = wsService.received.DocumentID
  /\ wsService.received.DocumentID \notin Ids(Tail(state.documents))
  /\ Len(docService.notifications) = 1
  /\ docService.notifications[1].notification.type = "info"
  /\ calls # <<>>

\* C30: a message event whose payload JSON.parse rejects changes nothing:
\* the store and the notification subscribers see nothing, the
\* connections, the reconnect-attempt counter, the timers and the handlers
\* are as before and no status is notified; a message that arrives right
\* after it for a new id is still added.
C30_UnparseableMessageIsDropped ==
  [][/\ (op' = "message" /\ wsService'.received.kind = "garbage") =>
          /\ state' = state
          /\ calls' = <<>>
          /\ docService'.notifications = <<>>
          /\ wsService'.sockets = wsService.sockets
          /\ \E s \in DOMAIN wsService'.sockets : wsService'.sockets[s] = "open"
          /\ wsService'.reconnectAttempts = wsService.reconnectAttempts
          /\ wsService'.timers = wsService.timers
          /\ wsService'.documentHandlers = wsService.documentHandlers
          /\ wsService'.statusLog = <<>>
     /\ (op = "message" /\ wsService.received.kind = "garbage"
          /\ NewDocumentArrives) =>
          /\ Len(state'.documents) = Len(state.documents) + 1
          /\ state'.documents[1].id = wsService'.received.DocumentID]_vars

\* an unparseable message has reached a service whose handler is
\* registered and whose store holds documents
C30_Witness ==
  /\ op = "message"
  /\ wsService.received.kind = "garbage"
  /\ wsService.documentHandlers # {}
  /\ \E s \in DOMAIN wsService.sockets : wsService.sockets[s] = "open"
  /\ state.documents # <<>>
  /\ docService.notificationCallbacks # <<>>
  /\ docService.notifications = <<>>

(***************************************************************************)
(* DocumentService.destroy, under SpecTeardown.                            *)
(***************************************************************************)
\* C23: destroy() leaves wsUnsubscribe null, its handler removed and the
\* live client torn down, whether or not the subscription was ever set
\* up and however often it is called, and no message event after a
\* destroy() changes the store's documents or reaches a notification
\* subscriber.
C23_NoMessageAfterDestroy ==
  [][/\ DS_destroy =>
          /\ docService'.wsUnsubscribe = 0
          /\ docService.wsUnsubscribe \notin wsService'.documentHandlers
          /\ wsService'.isDestroyed
          /\ wsService'.ws = 0
     /\ (wsService.isDestroyed /\ op' = "message") =>
          /\ state'.documents = state.documents
          /\ docService'.notifications = <<>>]_vars

(***************************************************************************)
(* NotificationBanner, under SpecBanner.                                   *)
(***************************************************************************)
\* C27: a notification shown with a positive duration has a dismissal
\* timer of that duration, whose firing removes it; a notification shown
\* without a duration has no dismissal timer.
C27_NoAutoDismissWithoutDuration ==
  \A n \in DOMAIN banner.notifications, i \in DOMAIN banner.timers :
    LET notification == banner.notifications[n]
        timer == banner.timers[i]
    IN (timer.kind = "dismiss" /\ timer.id = notification.id) =>
         /\ notification.duration # <<>>
         /\ timer.delay = notification.duration[1]

(***************************************************************************)
(* DocumentService: the documents over whole runs.                         *)
(***************************************************************************)
\* C31: the ids of the documents in the store are pairwise distinct,
\* whatever loads, creations and live messages came before; the fetched
\* lists have distinct ids and every created document a new uuid.
C31_DocumentIdsAreDistinct ==
  \A i, j \in DOMAIN state.documents :
    state.documents[i].id = state.documents[j].id => i = j

\* a live message for the id of a fetched document has just been dropped
\* in a store that also holds a created document
C31_Witness ==
  /\ op = "message"
  /\ wsService.received.kind = "json"
  /\ wsService.received.DocumentID = "srv1"
  /\ wsService.documentHandlers # {}
  /\ Ids(state.documents) = {"srv1", "uuid-1"}
  /\ Len(state.documents) = 2

\* C32: isLoading is true in every state in which a fetch started by
\* loadDocuments()/refreshDocuments() has not settled yet.
C32_LoadingWhileAFetchIsInFlight ==
  docService.pending # <<>> => state.isLoading

\* C34: a document that is in the store's documents is still there,
\* unchanged, after every later operation.
C34_DocumentsAreAppendOnly ==
  [][\A i \in DOMAIN state.documents :
       \E j \in DOMAIN state'.documents :
         state'.documents[j] = state.documents[i]]_vars

\* C36: no state delivered to a store listener has isLoading true and
\* error non-null together.
C36_LoadingAndErrorAreExclusive ==
  \A i \in DOMAIN calls :
    \A j \in DOMAIN calls[i].notified :
      LET delivered == calls[i].notified[j].state
      IN ~(delivered.isLoading /\ delivered.error # Null)

(***************************************************************************)
(* WebSocketService: connect() on an exhausted client, under SpecWS.       *)
(***************************************************************************)
\* C38: when connect() is called on an exhausted client that is not torn
\* down and that connection attempt fails too, whether the constructor
\* throws or the connection closes without having opened, a reconnect is
\* scheduled with the base delay.
C38_FreshConnectRestartsBackoff ==
  [][/\ (Exhausted(wsService) /\ WS_connect(TRUE)) =>
          wsService'.timers = <<reconnectDelay>>
     /\ \A s \in DOMAIN wsService.sockets, code \in CodesOfClose :
          (/\ op = "connect"
           /\ ~wsService.isDestroyed
           /\ wsService.reconnectAttempts = maxReconnectAttempts
           /\ wsService.timers = <<>>
           /\ Live(wsService) = {s}
           /\ wsService.ws = s
           /\ wsService.sockets[s] = "connecting"
           /\ TransportCloses(s, code))
          => wsService'.timers = <<reconnectDelay>>]_vars

(***************************************************************************)
(* DocumentService: how its promises settle, under SpecSettle.             *)
(***************************************************************************)
\* C37: the promise of initialize(), loadDocuments() or refreshDocuments()
\* is fulfilled whatever the fetch did; a failed fetch is reported in the
\* store alone, error being its message and isLoading false when the
\* call completes.
C37_LoadsNeverReject ==
  (op = "loadSettles") =>
    /\ docService.lastCall.settled = "fulfilled"
    /\ ~docService.lastCall.outcome.ok =>
         /\ state.error = docService.lastCall.outcome.message
         /\ ~state.isLoading

\* the fetch of an initialize() has failed with a throwing listener
\* subscribed to the store: the error is in the store and the listener
\* was told
C37_Witness ==
  /\ op = "loadSettles"
  /\ docService.lastCall.byInit
  /\ ~docService.lastCall.outcome.ok
  /\ docService.lastCall.settled = "fulfilled"
  /\ state.error = GenericFetchError
  /\ "bad" \in Range(listeners)
  /\ calls[1].notified # <<>>

(***************************************************************************)
(* DocumentService: overlapping loads, under SpecLoad.                     *)
(***************************************************************************)
\* C33: when the fetch of a load succeeds after the fetch of a load that
\* was started later has succeeded, the documents of the store stay what
\* they were: the older response does not overwrite the newer one.
C33_NewestFetchWins ==
  [][\A i \in DOMAIN docService.pending, outcome \in LoadOutcomes :
       (LoadSettles(i, outcome) /\ outcome.ok /\ docService.pending[i].overtaken)
         => state'.documents = state.documents]_vars

(***************************************************************************)
(* Store: a listener that calls setState, under SpecNested.                *)
(***************************************************************************)
\* C35: once a setState call has returned, the state last delivered to
\* each listener it notified is the state of the store.
C35_LastSnapshotIsCurrent ==
  \A i \in DOMAIN calls, l \in Range(listeners) :
    LET ds == {j \in DOMAIN calls[i].notified : calls[i].notified[j].listener = l}
        last == CHOOSE j \in ds : \A k \in ds : k <= j
    IN ds # {} => calls[i].notified[last].state = state

====
